---- MODULE Spec2Model ----
(***************************************************************************)
(* RetryQueue (retry-queue.js): a p-queue with concurrency 20 and an       *)
(* interval cap of 20 starts per 1000 ms, running every submitted function *)
(* through executeWithRetry (at most maxRetries + 1 calls, exponential     *)
(* backoff with jitter between them).                                      *)
(*                                                                         *)
(* One action is one turn of the JavaScript event loop: a call of add(),   *)
(* the settling of a pending fn() promise, the firing of a timer, or the   *)
(* passing of time.  Times are kept relative to Date.now(): a timer is the *)
(* number of milliseconds until it fires, intervalEnd is                   *)
(* #intervalEnd - Date.now() (any negative value reads as -1).  Timers     *)
(* fire when they are due.  The queue itself is the dependency p-queue     *)
(* (imported at line 1), modelled as its implementation behaves under the  *)
(* options the constructor passes.                                         *)
(***************************************************************************)
EXTENDS Integers, Sequences, FiniteSets, Bags, TLC

\* ------------------------------------------------------------------ bounds
\* Tasks of the burst workloads.
NumTasks == 22
\* The clock advances by at most interval / Granularity milliseconds a step.
Granularity == 2
\* Math.random() draws one of r / RandDen, r in 0 .. RandDen - 1.
RandDen == 2
\* A task function fails on its first 0 .. MaxPre calls.
MaxPre == 4

VARIABLES
    todo,           \* the batches of functions the caller has yet to pass to add()
    nextId,         \* the number of add() calls made so far
    concurrency,    \* PQueue option concurrency
    interval,       \* PQueue option interval
    intervalCap,    \* PQueue option intervalCap
    maxRetries,     \* RetryQueue.maxRetries
    baseDelay,      \* RetryQueue.baseDelay
    queue,          \* PQueue #queue: the jobs waiting to start, oldest first
    pending,        \* PQueue #pending
    intervalCount,  \* PQueue #intervalCount
    intervalId,     \* PQueue #intervalId: the setInterval timer, or Undefined
    intervalEnd,    \* PQueue #intervalEnd, relative to Date.now()
    timeoutId,      \* PQueue #timeoutId: the setTimeout timer, or Undefined
    active,         \* bag of the executeWithRetry activations in flight
    settled,        \* bag of the settled add() promises
    admitted,       \* history: ids of the started jobs, in start order
    recent,         \* history: ages (ms) of the starts of the last `interval` ms
    sinceReset,     \* history: starts since #intervalCount was last set to 0
    other           \* the RetryQueue of a second CrawlbaseClient: the fields
                    \* above of that instance, with its caller's todo and nextId

vars == <<todo, nextId, concurrency, interval, intervalCap, maxRetries, baseDelay,
          queue, pending, intervalCount, intervalId, intervalEnd, timeoutId,
          active, settled, admitted, recent, sinceReset, other>>

\* ------------------------------------------------------------------ values
\* A JavaScript value thrown or returned by a task function: its kind
\* ("Error" for instances of Error, "object" for plain objects, "string",
\* "null", "value" for a returned result), the fields shouldRetry reads
\* (status 0 and "" stand for an absent field) and msg, the text that tells
\* the values of different calls apart (Error message, object payload, string).
Val(type, status, code, name) ==
    [type |-> type, status |-> status, code |-> code, name |-> name, msg |-> ""]

NullVal == Val("null", 0, "", "")
OkVal == Val("value", 0, "", "")

Statuses == {400, 401, 404, 428, 429, 430, 499, 500, 503, 599}
Codes == {"ECONNRESET", "ECONNREFUSED", "ETIMEDOUT", "ENOTFOUND"}
Names == {"AbortError", "TimeoutError", "TypeError"}

Errors ==
    {Val("Error", s, "", "Error") : s \in Statuses}
    \cup {Val("object", s, "", "") : s \in {400, 429, 503}}
    \cup {Val("Error", 0, c, "Error") : c \in Codes}
    \cup {Val("object", 0, c, "") : c \in {"ECONNRESET"}}
    \cup {Val("Error", 0, "", n) : n \in Names}
    \cup {Val("Error", 0, "", "Error"), Val("object", 0, "", ""),
          Val("string", 0, "", ""), NullVal}

MsgOf(n) ==
    IF n <= 6
    THEN <<"call 1", "call 2", "call 3", "call 4", "call 5", "call 6">>[n]
    ELSE "call 7 or later"

\* The value the n-th call of a function produces from the template e.
Stamp(e, n) == IF e.type = "null" THEN e ELSE [e EXCEPT !.msg = MsgOf(n)]

\* A task function: its first `pre` calls throw errA, every later call does
\* `then` (returns a value when ok, throws otherwise).
Fn(pre, errA, ok, v) == [pre |-> pre, errA |-> errA, ok |-> ok, v |-> v]

OkFn == Fn(0, NullVal, TRUE, OkVal)

\* fn() called for the n-th time: [ok |-> fulfilled?, v |-> value or error].
Call(fn, n) ==
    IF n <= fn.pre
    THEN [ok |-> FALSE, v |-> Stamp(fn.errA, n)]
    ELSE [ok |-> fn.ok, v |-> Stamp(fn.v, n)]

Undefined == <<>>
Timer(ms) == <<ms>>

Max(a, b) == IF a > b THEN a ELSE b

\* ------------------------------------------------------------- RetryQueue
RECURSIVE Pow2(_)
Pow2(n) == IF n = 0 THEN 1 ELSE 2 * Pow2(n - 1)

\* A classification that misses status 500 itself.
shouldRetryAbove500(error) ==
    IF error.type \in {"Error", "object"}
    THEN \/ error.status = 429
         \/ error.status > 500
         \/ error.code \in {"ECONNRESET", "ECONNREFUSED", "ETIMEDOUT"}
         \/ error.name \in {"AbortError", "TimeoutError"}
    ELSE FALSE

\* shouldRetry(error)
shouldRetry(error) ==
    IF error.type \in {"Error", "object"}
    THEN IF error.status = 429 THEN TRUE
         ELSE IF error.status >= 500 THEN TRUE
         ELSE IF error.code = "ECONNRESET" THEN TRUE
         ELSE IF error.code = "ECONNREFUSED" THEN TRUE
         ELSE IF error.code = "ETIMEDOUT" THEN TRUE
         ELSE IF error.name = "AbortError" THEN TRUE
         ELSE IF error.name = "TimeoutError" THEN TRUE
         ELSE FALSE
    ELSE FALSE

\* Delays are exact rationals, kept as numerators over DelayScale.
DelayScale == 10 * RandDen

\* A jitter of up to the whole exponential delay (the factor 0.1 left out).
calculateDelayFullJitter(attempt, r) ==
    LET exponentialDelay == baseDelay * Pow2(attempt)
        jitter == r * exponentialDelay * 10
    IN  exponentialDelay * DelayScale + jitter

\* A delay that does not grow with the attempt (the factor 2^attempt left
\* out).
calculateDelayFlat(attempt, r) ==
    LET exponentialDelay == baseDelay
        jitter == r * exponentialDelay
    IN  exponentialDelay * DelayScale + jitter

\* calculateDelay(attempt), with Math.random() = r / RandDen:
\* exponentialDelay + (r / RandDen) * 0.1 * exponentialDelay.
calculateDelay(attempt, r) ==
    LET exponentialDelay == baseDelay * Pow2(attempt)
        jitter == r * exponentialDelay
    IN  exponentialDelay * DelayScale + jitter

\* String(error), as far as the kinds of value differ.
String(error) ==
    CASE error.type = "Error" -> error.msg
      [] error.type = "object" -> "[object Object]"
      [] error.type = "string" -> error.msg
      [] OTHER -> "null"

\* A normalisation that wraps Error instances too.
ToLastErrorWrappingAll(error) ==
    [Val("Error", 0, "", "Error") EXCEPT !.msg = String(error)]

\* executeWithRetry, line 49:
\* lastError = error instanceof Error ? error : new Error(String(error))
ToLastError(error) ==
    IF error.type = "Error"
    THEN error
    ELSE [Val("Error", 0, "", "Error") EXCEPT !.msg = String(error)]

\* The activation of executeWithRetry(fn) inside the job of one add() call:
\* its locals attempt and lastError, where it is suspended (pc "fn": awaiting
\* fn(); pc "sleep": awaiting sleep(delay), wake = ms until the timer fires),
\* and its history (calls of fn so far, the delays it has slept).
\* Functions that always succeed at once are interchangeable once started:
\* their activations carry id 0.
Ident(job) == IF job.fn = OkFn THEN 0 ELSE job.id

Activation(job) ==
    [id |-> Ident(job), fn |-> job.fn, attempt |-> 0, lastError |-> NullVal,
     pc |-> "fn", wake |-> 0, calls |-> 1, delays |-> <<>>]

\* -------------------------------------------------------------- p-queue
\* The queue of the dependency p-queue, configured by the constructor
\* (concurrency 20, interval 1000, intervalCap 20; carryoverConcurrencyCount
\* false, autoStart true, no priorities).  Its methods are functions of the
\* state S of the queue and of the activations it runs.
State ==
    [queue |-> queue, pending |-> pending, intervalCount |-> intervalCount,
     intervalId |-> intervalId, intervalEnd |-> intervalEnd, timeoutId |-> timeoutId,
     active |-> active, settled |-> settled, admitted |-> admitted,
     recent |-> recent, sinceReset |-> sinceReset]

\* #isIntervalPaused: [s |-> state after the getter, paused |-> its value]
isIntervalPaused(S) ==
    IF S.intervalId = Undefined
    THEN IF S.intervalEnd < 0
         THEN [s |-> [S EXCEPT !.intervalCount = 0, !.sinceReset = 0], paused |-> FALSE]
         ELSE [s |-> IF S.timeoutId = Undefined
                     THEN [S EXCEPT !.timeoutId = Timer(S.intervalEnd)]
                     ELSE S,
               paused |-> TRUE]
    ELSE [s |-> S, paused |-> FALSE]

\* An interval cap off by one.
doesIntervalAllowAnotherOffByOne(S) == S.intervalCount <= intervalCap

\* #doesIntervalAllowAnother
doesIntervalAllowAnother(S) == S.intervalCount < intervalCap

\* A concurrency limit off by one.
doesConcurrentAllowAnotherOffByOne(S) == S.pending <= concurrency

\* #doesConcurrentAllowAnother
doesConcurrentAllowAnother(S) == S.pending < concurrency

\* #initializeIntervalIfNeeded
initializeIntervalIfNeeded(S) ==
    IF S.intervalId # Undefined
    THEN S
    ELSE [S EXCEPT !.intervalId = Timer(interval), !.intervalEnd = interval]

\* job(): the synchronous part of the closure add() enqueued: #pending++,
\* #intervalCount++, then executeWithRetry(fn) up to its first await, which
\* is attempt 0 calling fn().
RunJob(S, job) ==
    [S EXCEPT !.pending = @ + 1,
              !.intervalCount = @ + 1,
              !.active = @ (+) SetToBag({Activation(job)}),
              !.admitted = Append(@, job.id),
              !.recent = <<0>> \o @,
              !.sinceReset = @ + 1]

\* #tryToStartAnother: [s |-> state after the call, started |-> its value]
tryToStartAnother(S) ==
    IF Len(S.queue) = 0
    THEN [s |-> [S EXCEPT !.intervalId = Undefined], started |-> FALSE]
    ELSE LET p == isIntervalPaused(S)
             canInitializeInterval == ~p.paused
         IN  IF doesIntervalAllowAnother(p.s) /\ doesConcurrentAllowAnother(p.s)
             THEN LET T == RunJob([p.s EXCEPT !.queue = Tail(@)], Head(p.s.queue))
                  IN  [s |-> IF canInitializeInterval
                             THEN initializeIntervalIfNeeded(T)
                             ELSE T,
                       started |-> TRUE]
             ELSE [s |-> p.s, started |-> FALSE]

\* #processQueue: while (this.#tryToStartAnother()) {}
RECURSIVE processQueue(_)
processQueue(S) ==
    LET r == tryToStartAnother(S)
    IN  IF r.started THEN processQueue(r.s) ELSE r.s

\* #onInterval
onInterval(S) ==
    LET T == IF S.intervalCount = 0 /\ S.pending = 0 /\ S.intervalId # Undefined
             THEN [S EXCEPT !.intervalId = Undefined]
             ELSE S
    IN  processQueue([T EXCEPT !.intervalCount = 0, !.sinceReset = 0])

\* #onResumeInterval
onResumeInterval(S) ==
    [initializeIntervalIfNeeded(onInterval(S)) EXCEPT !.timeoutId = Undefined]

\* #next
next(S) == tryToStartAnother([S EXCEPT !.pending = @ - 1]).s

\* A job that swallows the failure of its function: the promise stays pending.
SettleSwallowing(S, a, kind, v) ==
    next([S EXCEPT !.active = @ (-) SetToBag({a}),
                   !.settled = IF kind = "reject"
                               THEN @
                               ELSE @ (+) SetToBag({[id |-> a.id, fn |-> a.fn,
                                                     calls |-> a.calls,
                                                     delays |-> a.delays,
                                                     kind |-> kind, v |-> v]})])

\* A job that settles its promise but never gives its slot back (no #next()).
SettleKeepingSlot(S, a, kind, v) ==
    [S EXCEPT !.active = @ (-) SetToBag({a}),
              !.settled = @ (+) SetToBag({[id |-> a.id, fn |-> a.fn,
                                          calls |-> a.calls, delays |-> a.delays,
                                          kind |-> kind, v |-> v]})]

\* The end of a job: resolve(result) or reject(error) of the promise add()
\* returned, then finally #next().
Settle(S, a, kind, v) ==
    next([S EXCEPT !.active = @ (-) SetToBag({a}),
                   !.settled = @ (+) SetToBag({[id |-> a.id, fn |-> a.fn,
                                               calls |-> a.calls, delays |-> a.delays,
                                               kind |-> kind, v |-> v]})])

\* Replace activation a by b.
Become(S, a, b) == [S EXCEPT !.active = (@ (-) SetToBag({a})) (+) SetToBag({b})]

\* A continuation of fn() that is not run while some task sleeps (a sleep
\* that keeps the event loop busy).
FulfilledUnlessAsleep(S, a, value) ==
    IF \E b \in BagToSet(S.active) : b.pc = "sleep"
    THEN S
    ELSE Settle(S, a, "resolve", value)

\* executeWithRetry: await fn() fulfilled with value: return it.
Fulfilled(S, a, value) == Settle(S, a, "resolve", value)

\* A catch block that keeps the first error it saw.
RejectedKeepingFirst(S, a, error, r) ==
    LET lastError == IF a.lastError = NullVal THEN ToLastError(error) ELSE a.lastError
    IN  IF a.attempt = maxRetries
        THEN Settle(S, a, "reject", lastError)
        ELSE IF shouldRetry(error)
        THEN LET delay == calculateDelay(a.attempt, r)
             IN  Become(S, a, [a EXCEPT !.lastError = lastError,
                                        !.pc = "sleep",
                                        !.wake = delay \div DelayScale,
                                        !.delays = Append(@, delay)])
        ELSE Settle(S, a, "reject", lastError)

\* A catch block that gives up one attempt early.
RejectedOneEarly(S, a, error, r) ==
    LET lastError == ToLastError(error)
    IN  IF a.attempt = maxRetries - 1
        THEN Settle(S, a, "reject", lastError)
        ELSE IF shouldRetry(error)
        THEN LET delay == calculateDelay(a.attempt, r)
             IN  Become(S, a, [a EXCEPT !.lastError = lastError,
                                        !.pc = "sleep",
                                        !.wake = delay \div DelayScale,
                                        !.delays = Append(@, delay)])
        ELSE Settle(S, a, "reject", lastError)

\* A catch block that gives the slot of the job back for the time it sleeps.
RejectedReleasingSlot(S, a, error, r) ==
    LET lastError == ToLastError(error)
    IN  IF a.attempt = maxRetries
        THEN Settle(S, a, "reject", lastError)
        ELSE IF shouldRetry(error)
        THEN LET delay == calculateDelay(a.attempt, r)
             IN  next(Become(S, a, [a EXCEPT !.lastError = lastError,
                                             !.pc = "sleep",
                                             !.wake = delay \div DelayScale,
                                             !.delays = Append(@, delay)]))
        ELSE Settle(S, a, "reject", lastError)

\* A catch block without the test attempt === maxRetries: the last failure
\* is classified and slept on like the others.
RejectedUnchecked(S, a, error, r) ==
    LET lastError == ToLastError(error)
    IN  IF shouldRetry(error)
        THEN LET delay == calculateDelay(a.attempt, r)
             IN  Become(S, a, [a EXCEPT !.lastError = lastError,
                                        !.pc = "sleep",
                                        !.wake = delay \div DelayScale,
                                        !.delays = Append(@, delay)])
        ELSE Settle(S, a, "reject", lastError)

\* A catch block that retries whatever the error.
RejectedAlwaysRetrying(S, a, error, r) ==
    LET lastError == ToLastError(error)
    IN  IF a.attempt = maxRetries
        THEN Settle(S, a, "reject", lastError)
        ELSE LET delay == calculateDelay(a.attempt, r)
             IN  Become(S, a, [a EXCEPT !.lastError = lastError,
                                        !.pc = "sleep",
                                        !.wake = delay \div DelayScale,
                                        !.delays = Append(@, delay)])

\* executeWithRetry: await fn() rejected with error: the catch block, with r
\* the draw of Math.random() should it be asked for.
Rejected(S, a, error, r) ==
    LET lastError == ToLastError(error)
    IN  IF a.attempt = maxRetries
        THEN Settle(S, a, "reject", lastError)
        ELSE IF shouldRetry(error)
        THEN LET delay == calculateDelay(a.attempt, r)
             IN  Become(S, a, [a EXCEPT !.lastError = lastError,
                                        !.pc = "sleep",
                                        !.wake = delay \div DelayScale,
                                        !.delays = Append(@, delay)])
        ELSE Settle(S, a, "reject", lastError)

\* A retry loop that does not count its attempts.
ResumedUncounted(S, a) ==
    Become(S, a, [a EXCEPT !.pc = "fn", !.wake = 0, !.calls = @ + 1])

\* executeWithRetry: sleep(delay) is over: attempt++, and the loop either
\* calls fn() again or is left for the final throw lastError.
Resumed(S, a) ==
    LET attempt == a.attempt + 1
    IN  IF attempt <= maxRetries
        THEN Become(S, a, [a EXCEPT !.attempt = attempt, !.pc = "fn",
                                    !.wake = 0, !.calls = @ + 1])
        ELSE Settle(S, [a EXCEPT !.attempt = attempt], "reject", a.lastError)

\* An add() that only enqueues the job and leaves its start to the timers.
addDeferred(S, fn, id) ==
    [S EXCEPT !.queue = Append(@, [id |-> id, fn |-> fn])]

\* An add() that puts the job in front of the waiting ones.
addInFront(S, fn, id) ==
    tryToStartAnother([S EXCEPT !.queue = <<[id |-> id, fn |-> fn]>> \o @]).s

\* RetryQueue.add(fn): PQueue.add enqueues the job (priority 0: behind every
\* waiting job) and calls #tryToStartAnother.  id numbers the add() calls.
add(S, fn, id) ==
    tryToStartAnother([S EXCEPT !.queue = Append(@, [id |-> id, fn |-> fn])]).s

\* add(fn) for each function of a batch, the first of them numbered id.
RECURSIVE addAll(_, _, _)
addAll(S, fns, id) ==
    IF fns = <<>> THEN S ELSE addAll(add(S, Head(fns), id), Tail(fns), id + 1)

\* ------------------------------------------------- CrawlbaseClient.crawl
\* null: a header the response does not carry.
Null == -1

\* A CrawlResult: {success: true, data: {status, ...}} or
\* {success: false, error: {status, ...}}; msg stands for requestId, duration
\* and the texts.
CrawlSuccess(status) == Val("success", status, "", "")
CrawlFailure(status) == Val("failure", status, "", "")

chargeableStatuses == {200, 201, 204, 301, 302, 404, 410}

\* The responses of the Crawlbase API: the HTTP status and the parsed
\* pc_status and original_status headers.
Responses ==
    [status : {200, 400, 429, 500, 503},
     pc_status : {Null, 200, 520},
     original_status : {Null, 0, 200, 404, 429, 500}]

\* A closure that throws on an HTTP error instead of returning a result.
onResponseThrowing(response) ==
    IF response.status >= 400
    THEN [ok |-> FALSE, v |-> Val("object", response.status, "", "")]
    ELSE IF response.pc_status # 200
            \/ (response.original_status \notin {Null, 0}
                /\ response.original_status \notin chargeableStatuses)
    THEN [ok |-> TRUE, v |-> CrawlFailure(response.status)]
    ELSE [ok |-> TRUE, v |-> CrawlSuccess(response.status)]

\* The closure crawl passes to retryQueue.add, from the response on: what it
\* returns (ok) or throws.
onResponse(response) ==
    LET pcStatusCode == response.pc_status
        originalStatusCode == response.original_status
    IN  IF response.status >= 400
        THEN [ok |-> TRUE, v |-> CrawlFailure(response.status)]
        ELSE IF pcStatusCode # 200
                \/ (originalStatusCode \notin {Null, 0}
                    /\ originalStatusCode \notin chargeableStatuses)
        THEN [ok |-> TRUE, v |-> CrawlFailure(response.status)]
        ELSE [ok |-> TRUE, v |-> CrawlSuccess(response.status)]

\* What fetch rejects with when it does not reach the API: a TypeError
\* ("fetch failed"), or an Error that carries the code of the socket error.
FetchErrors == {Val("Error", 0, "", "TypeError"), Val("Error", 0, "ECONNRESET", "Error")}

\* The world of a crawl: whether the client has the token the request needs,
\* whether fetch reaches the API (and what it rejects with when it does
\* not), and the response the API gives.
Worlds ==
    [hasToken : BOOLEAN, reachable : BOOLEAN, fetchError : FetchErrors,
     response : Responses]

\* The closure crawl passes to retryQueue.add, as a task function: getToken
\* throws an Error when the token is missing, fetch rejects when the API is
\* not reached, and otherwise the response decides.
crawlTask(w) ==
    IF ~w.hasToken
    THEN Fn(0, NullVal, FALSE, Val("Error", 0, "", "Error"))
    ELSE IF ~w.reachable
    THEN Fn(0, NullVal, FALSE, w.fetchError)
    ELSE Fn(0, NullVal, onResponse(w.response).ok, onResponse(w.response).v)

\* The fetch calls a settled crawl task has made.
Requests(w, s) == IF w.hasToken THEN s.calls ELSE 0

\* A crawl without its catch block: a rejection of the queue is passed on.
crawlRethrowing(s) == s.v

\* What crawl returns once the promise of retryQueue.add has settled as s:
\* the result of the closure, or the catch block's {success: false,
\* error: {error: message, status: 500}}.
crawl(s) ==
    IF s.kind = "resolve"
    THEN s.v
    ELSE [CrawlFailure(500) EXCEPT
              !.msg = IF s.v.type = "Error" THEN s.v.msg ELSE "Unknown error"]

\* ------------------------------------------------------------ workloads
\* What a task function does after its failing calls.
Thens ==
    {[ok |-> TRUE, v |-> OkVal],
     [ok |-> FALSE, v |-> Val("Error", 503, "", "Error")],
     [ok |-> FALSE, v |-> Val("object", 400, "", "")],
     [ok |-> FALSE, v |-> Val("string", 0, "", "")]}

Scripts ==
    {Fn(0, NullVal, t.ok, t.v) : t \in Thens}
    \cup {Fn(pre, e, t.ok, t.v) : pre \in 1 .. MaxPre, e \in Errors, t \in Thens}

\* The caller's program is a sequence of batches: the functions of a batch
\* are passed to add() one after the other in one turn of the event loop
\* (as Promise.all(urls.map(crawl)) does), batches in different turns.
\* The k functions numbered first + 1 .. first + k of a burst whose first
\* function is f, the others succeeding at once.
Batch(f, first, k) == [i \in 1 .. k |-> IF first + i = 1 THEN f ELSE OkFn]

\* NumTasks functions in one, two or three batches.
Bursts(f) ==
    {<<Batch(f, 0, NumTasks)>>,
     <<Batch(f, 0, NumTasks - 2), Batch(f, NumTasks - 2, 2)>>,
     <<Batch(f, 0, 1), Batch(f, 1, NumTasks - 3), Batch(f, NumTasks - 2, 2)>>}

\* Two functions passed to add() in one turn.
PairFns ==
    {OkFn,
     Fn(0, NullVal, FALSE, Val("object", 400, "", "")),
     Fn(1, Val("Error", 503, "", "Error"), TRUE, OkVal)}

Pairs == {<<<<f, g>>>> : f \in PairFns, g \in PairFns}

\* The programs of the caller: one function of any script, one crawl, two
\* functions, or a burst.
Workloads ==
    {<<<<f>>>> : f \in Scripts}
    \cup {<<<<crawlTask(w)>>>> : w \in Worlds}
    \cup Pairs
    \cup UNION {Bursts(f) : f \in {OkFn, Fn(1, Val("Error", 503, "", "Error"), TRUE, OkVal)}}

\* ------------------------------------------------------------- behaviour
config == <<concurrency, interval, intervalCap, maxRetries, baseDelay>>

\* The fields of the first instance.
fields == <<queue, pending, intervalCount, intervalId, intervalEnd, timeoutId,
            active, settled, admitted, recent, sinceReset>>

\* The fields of the queue after a callback has run.
Apply(S) ==
    \E T \in {S} :
        /\ queue' = T.queue
        /\ pending' = T.pending
        /\ intervalCount' = T.intervalCount
        /\ intervalId' = T.intervalId
        /\ intervalEnd' = T.intervalEnd
        /\ timeoutId' = T.timeoutId
        /\ active' = T.active
        /\ settled' = T.settled
        /\ admitted' = T.admitted
        /\ recent' = T.recent
        /\ sinceReset' = T.sinceReset
        /\ other' = other

\* The fields of a RetryQueue after new RetryQueue(), with the program of
\* its caller.
Fresh(program) ==
    [queue |-> <<>>, pending |-> 0, intervalCount |-> 0, intervalId |-> Undefined,
     intervalEnd |-> -1, timeoutId |-> Undefined, active |-> EmptyBag,
     settled |-> EmptyBag, admitted |-> <<>>, recent |-> <<>>, sinceReset |-> 0,
     todo |-> program, nextId |-> 0]

\* new RetryQueue(): nothing submitted yet.
Constructed ==
    /\ nextId = 0
    /\ concurrency = 20
    /\ interval = 1000
    /\ intervalCap = 20
    /\ maxRetries = 3
    /\ baseDelay = 1000
    /\ queue = <<>>
    /\ pending = 0
    /\ intervalCount = 0
    /\ intervalId = Undefined
    /\ intervalEnd = -1
    /\ timeoutId = Undefined
    /\ active = EmptyBag
    /\ settled = EmptyBag
    /\ admitted = <<>>
    /\ recent = <<>>
    /\ sinceReset = 0

\* new RetryQueue(), and the program of the caller; the second client is
\* never used.
Init == todo \in Workloads /\ Constructed /\ other = Fresh(<<>>)

\* The caller calls add(fn) with the functions of its next batch.
Add ==
    /\ todo # <<>>
    /\ Apply(addAll(State, Head(todo), nextId + 1))
    /\ todo' = Tail(todo)
    /\ nextId' = nextId + Len(Head(todo))
    /\ UNCHANGED config

\* The promise of a pending fn() call is fulfilled.
FnFulfilled ==
    \E a \in BagToSet(active) :
        /\ a.pc = "fn"
        /\ Call(a.fn, a.calls).ok
        /\ Apply(Fulfilled(State, a, Call(a.fn, a.calls).v))
        /\ UNCHANGED <<todo, nextId, config>>

\* The promise of a pending fn() call is rejected.
FnRejected ==
    \E a \in BagToSet(active), r \in 0 .. RandDen - 1 :
        /\ a.pc = "fn"
        /\ ~Call(a.fn, a.calls).ok
        /\ Apply(Rejected(State, a, Call(a.fn, a.calls).v, r))
        /\ UNCHANGED <<todo, nextId, config>>

\* A retry that spends the budget of the queue itself (maxRetries counted
\* down on the instance).
SleepOverSpendingBudget ==
    \E a \in BagToSet(active) :
        /\ a.pc = "sleep"
        /\ a.wake = 0
        /\ Apply(Resumed(State, a))
        /\ maxRetries' = maxRetries - 1
        /\ UNCHANGED <<todo, nextId, concurrency, interval, intervalCap, baseDelay>>

\* The setTimeout of a sleep(delay) fires.
SleepOver ==
    \E a \in BagToSet(active) :
        /\ a.pc = "sleep"
        /\ a.wake = 0
        /\ Apply(Resumed(State, a))
        /\ UNCHANGED <<todo, nextId, config>>

\* The setInterval timer of the queue fires (and stays armed for its next
\* period unless #onInterval clears it).
IntervalFires ==
    /\ intervalId = Timer(0)
    /\ Apply(onInterval([State EXCEPT !.intervalId = Timer(interval)]))
    /\ UNCHANGED <<todo, nextId, config>>

\* The setTimeout timer of the queue fires.
TimeoutFires ==
    /\ timeoutId = Timer(0)
    /\ Apply(onResumeInterval(State))
    /\ UNCHANGED <<todo, nextId, config>>

\* The milliseconds until the armed timers of an instance fire.
DuesOf(S) ==
    (IF S.intervalId = Undefined THEN {} ELSE {S.intervalId[1]})
    \cup (IF S.timeoutId = Undefined THEN {} ELSE {S.timeoutId[1]})
    \cup {a.wake : a \in {b \in BagToSet(S.active) : b.pc = "sleep"}}

\* The milliseconds until the armed timers of the process fire.
Dues == DuesOf(State) \cup DuesOf(other)

Later(t, d) == IF t = Undefined THEN t ELSE Timer(t[1] - d)

Older(ages, d) ==
    SelectSeq([i \in 1 .. Len(ages) |-> ages[i] + d], LAMBDA age : age < interval)

Asleep(a, d) == IF a.pc = "sleep" THEN [a EXCEPT !.wake = @ - d] ELSE a

MinOf(T) == CHOOSE t \in T : \A u \in T : t <= u

\* Time passes: up to the next timer due, by at most interval / Granularity.
\* A timer that is due fires before time goes on.
Tick ==
    /\ 0 \notin Dues
    /\ LET d == MinOf(Dues \cup {interval \div Granularity})
       IN  /\ intervalId' = Later(intervalId, d)
           /\ timeoutId' = Later(timeoutId, d)
           /\ intervalEnd' = Max(-1, intervalEnd - d)
           /\ active' = BagOfAll(LAMBDA a : Asleep(a, d), active)
           /\ recent' = Older(recent, d)
           /\ other' = [other EXCEPT !.intervalId = Later(@, d),
                                     !.timeoutId = Later(@, d),
                                     !.intervalEnd = Max(-1, @ - d),
                                     !.active = BagOfAll(LAMBDA a : Asleep(a, d), @),
                                     !.recent = Older(@, d)]
    /\ UNCHANGED <<todo, nextId, config, queue, pending, intervalCount, settled,
                   admitted, sinceReset>>

Next ==
    \/ Add
    \/ FnFulfilled
    \/ FnRejected
    \/ SleepOver
    \/ IntervalFires
    \/ TimeoutFires
    \/ Tick

Spec == Init /\ [][Next]_vars

\* The event loop runs every callback that is ready: timers fire, time goes
\* on, and every fn() call that was made settles.  The caller is free to stop
\* calling add().
Fairness ==
    /\ WF_vars(FnFulfilled)
    /\ WF_vars(FnRejected)
    /\ WF_vars(SleepOver)
    /\ WF_vars(IntervalFires)
    /\ WF_vars(TimeoutFires)
    /\ WF_vars(Tick)

\* The programs the fair behaviours are checked for: bursts of NumTasks tasks
\* in one turn (the first of them succeeding at once or after a retry), two
\* tasks in two turns, and single tasks that succeed at once, fail at once,
\* succeed after a retry or fail until the retries are spent.
LiveWorkloads ==
    {<<Batch(f, 0, NumTasks)>> :
        f \in {OkFn, Fn(1, Val("Error", 503, "", "Error"), TRUE, OkVal)}}
    \cup {<<<<OkFn>>, <<f>>>> : f \in PairFns}
    \cup {<<<<f>>>> : f \in PairFns \cup {Fn(MaxPre, Val("Error", 429, "", "Error"),
                                             FALSE, Val("Error", 503, "", "Error"))}}

LiveInit == todo \in LiveWorkloads /\ Constructed /\ other = Fresh(<<>>)

FairSpec == LiveInit /\ [][Next]_vars /\ Fairness

\* ------------------------------------------------------- two instances
\* A process with two CrawlbaseClients, each with the RetryQueue its
\* constructor made.  The callbacks of the second instance are those of the
\* first, run on the fields of the second; they share the clock.
\* The caller of the second client calls add(fn) with its next batch.
OtherAdd ==
    /\ other.todo # <<>>
    /\ other' = [addAll(other, Head(other.todo), other.nextId + 1)
                     EXCEPT !.todo = Tail(@),
                            !.nextId = @ + Len(Head(other.todo))]
    /\ UNCHANGED <<fields, todo, nextId, config>>

\* A #next() that gives a slot back on a counter the instances share.
OtherFnFulfilledProcessWide ==
    \E a \in BagToSet(other.active) :
        /\ a.pc = "fn"
        /\ Call(a.fn, a.calls).ok
        /\ other' = Fulfilled(other, a, Call(a.fn, a.calls).v)
        /\ pending' = pending - 1
        /\ UNCHANGED <<queue, intervalCount, intervalId, intervalEnd, timeoutId,
                       active, settled, admitted, recent, sinceReset>>
        /\ UNCHANGED <<todo, nextId, config>>

\* The promise of a pending fn() call of the second instance is fulfilled.
OtherFnFulfilled ==
    \E a \in BagToSet(other.active) :
        /\ a.pc = "fn"
        /\ Call(a.fn, a.calls).ok
        /\ other' = Fulfilled(other, a, Call(a.fn, a.calls).v)
        /\ UNCHANGED <<fields, todo, nextId, config>>

\* The promise of a pending fn() call of the second instance is rejected.
OtherFnRejected ==
    \E a \in BagToSet(other.active), r \in 0 .. RandDen - 1 :
        /\ a.pc = "fn"
        /\ ~Call(a.fn, a.calls).ok
        /\ other' = Rejected(other, a, Call(a.fn, a.calls).v, r)
        /\ UNCHANGED <<fields, todo, nextId, config>>

\* The setTimeout of a sleep(delay) of the second instance fires.
OtherSleepOver ==
    \E a \in BagToSet(other.active) :
        /\ a.pc = "sleep"
        /\ a.wake = 0
        /\ other' = Resumed(other, a)
        /\ UNCHANGED <<fields, todo, nextId, config>>

\* The setInterval timer of the second queue fires.
OtherIntervalFires ==
    /\ other.intervalId = Timer(0)
    /\ other' = onInterval([other EXCEPT !.intervalId = Timer(interval)])
    /\ UNCHANGED <<fields, todo, nextId, config>>

\* The setTimeout timer of the second queue fires.
OtherTimeoutFires ==
    /\ other.timeoutId = Timer(0)
    /\ other' = onResumeInterval(other)
    /\ UNCHANGED <<fields, todo, nextId, config>>

\* The programs of the caller of a client: two tasks in two turns, or one
\* task that succeeds after a retry.
Programs ==
    {<<<<OkFn>>, <<OkFn>>>>,
     <<<<Fn(1, Val("Error", 503, "", "Error"), TRUE, OkVal)>>>>}

\* The first client may also get a burst of NumTasks tasks in one turn.
TwoInit ==
    /\ todo \in Programs \cup {<<Batch(OkFn, 0, NumTasks)>>}
    /\ Constructed
    /\ other \in {Fresh(program) : program \in Programs}

TwoNext ==
    \/ Next
    \/ OtherAdd
    \/ OtherFnFulfilled
    \/ OtherFnRejected
    \/ OtherSleepOver
    \/ OtherIntervalFires
    \/ OtherTimeoutFires

TwoSpec == TwoInit /\ [][TwoNext]_vars

\* ================================================================ claims
Records == BagToSet(active) \cup BagToSet(settled)

\* The activations that are executing their function (awaiting fn()).
Executing == CopiesIn("fn", BagOfAll(LAMBDA a : a.pc, active))

\* C1: at no time do more than maxConcurrency (20) tasks execute their
\* underlying operation.
C1_ConcurrencyCap == Executing <= 20 /\ concurrency = 20

\* C1 witness: 20 tasks execute while a submitted task waits for a slot.
C1_Witness == Executing = 20 /\ queue # <<>>

\* C2 as claimed: the tasks that began execution in the sliding window of the
\* last windowMs (1000) ms, whenever it ends, number at most 20.
C2_SlidingWindow == Len(recent) <= 20

\* C2 amended: at most 20 tasks begin execution between two consecutive
\* resets of the interval counter of the queue.
C2_PerIntervalCap == sinceReset <= 20 /\ intervalCap = 20 /\ interval = 1000

\* C2 witness: 20 tasks have begun since the last reset and a submitted task
\* waits although a concurrency slot is free.
C2_Witness == sinceReset = 20 /\ queue # <<>> /\ pending < concurrency

\* C3: the function of a task is called at most maxRetries + 1 (4) times.
C3_AttemptsBounded == \A a \in Records : a.calls <= maxRetries + 1 /\ a.calls <= 4

\* C3 witness: a task whose function has been called 4 times, each of the
\* first three calls having failed.
C3_Witness == \E a \in Records : a.calls = 4 /\ Len(a.delays) = 3

\* The errors the specification classifies as retryable.
Retryable(e) ==
    /\ e.type \in {"Error", "object"}
    /\ \/ e.status = 429
       \/ e.status >= 500
       \/ e.code \in {"ECONNRESET", "ECONNREFUSED", "ETIMEDOUT"}
       \/ e.name \in {"AbortError", "TimeoutError"}

\* The n-th call of fn fails with a retryable error.
FailsRetryable(fn, n) == ~Call(fn, n).ok /\ Retryable(Call(fn, n).v)

\* The n-th call of fn fails with an error that is not retryable.
FailsFatal(fn, n) == ~Call(fn, n).ok /\ ~Retryable(Call(fn, n).v)

AlwaysFailsRetryable(fn) == \A n \in 1 .. 4 : FailsRetryable(fn, n)

\* C4 as claimed: a task failing with a retryable error on every attempt is
\* attempted exactly 4 times and its promise rejects with the very error of
\* the last attempt.
C4_RejectsWithLastError ==
    \A s \in BagToSet(settled) :
        AlwaysFailsRetryable(s.fn) =>
            s.calls = 4 /\ s.kind = "reject" /\ s.v = Call(s.fn, 4).v

\* new Error(message)
NewError(message) == [Val("Error", 0, "", "Error") EXCEPT !.msg = message]

\* What a promise rejects with when the last attempt failed with e: e itself
\* when it is an Error, else a new Error made of its string form.
Surfaced(e) == IF e.type = "Error" THEN e ELSE NewError(String(e))

\* C4 amended: a task failing with a retryable error on every attempt is
\* attempted exactly 4 times and its promise rejects with the error of the
\* last attempt when that is an Error instance, and else with a new Error
\* whose message is the string form of the error of the last attempt.
C4_RejectsWithLastErrorAsError ==
    \A s \in BagToSet(settled) :
        AlwaysFailsRetryable(s.fn) =>
            s.calls = 4 /\ s.kind = "reject" /\ s.v = Surfaced(Call(s.fn, 4).v)

\* C4 witness: a task that threw a retryable Error on each of its 4 attempts
\* has been rejected.
C4_Witness ==
    \E s \in BagToSet(settled) :
        AlwaysFailsRetryable(s.fn) /\ Call(s.fn, 4).v.type = "Error" /\ s.calls = 4

\* No task is attempted again or sleeps after a failure that is not retryable.
StopsAtFatal ==
    \A a \in Records :
        /\ \A n \in 1 .. a.calls - 1 : FailsRetryable(a.fn, n)
        /\ Len(a.delays) \in {a.calls - 1, a.calls}
        /\ Len(a.delays) = a.calls => FailsRetryable(a.fn, a.calls)

\* C5 as claimed: an attempt k < maxRetries failing with a non-retryable error
\* is the last one: the promise rejects with that very error after k + 1
\* attempts, and no backoff sleep follows.
C5_FatalFailsAtOnce ==
    /\ StopsAtFatal
    /\ \A s \in BagToSet(settled) :
           s.calls <= maxRetries /\ FailsFatal(s.fn, s.calls) =>
               /\ s.kind = "reject"
               /\ s.v = Call(s.fn, s.calls).v
               /\ Len(s.delays) = s.calls - 1

\* C5 amended: as claimed, but the promise rejects with that error when it is
\* an Error instance and else with a new Error whose message is its string
\* form.
C5_FatalFailsAtOnceAsError ==
    /\ StopsAtFatal
    /\ \A s \in BagToSet(settled) :
           s.calls <= maxRetries /\ FailsFatal(s.fn, s.calls) =>
               /\ s.kind = "reject"
               /\ s.v = Surfaced(Call(s.fn, s.calls).v)
               /\ Len(s.delays) = s.calls - 1

\* C5 witness: a task rejected after its second attempt failed with an error
\* that is not retryable, having slept once.
C5_Witness ==
    \E s \in BagToSet(settled) :
        s.calls = 2 /\ FailsFatal(s.fn, 2) /\ s.kind = "reject" /\ Len(s.delays) = 1

\* C6: a task failing with retryable errors on its first j attempts and
\* succeeding on the next resolves with the value of that attempt after
\* exactly j + 1 attempts and j backoff sleeps (none for j = 0).
C6_ResolvesAfterRetries ==
    \A j \in 0 .. 3 :
        \A a \in Records :
            (/\ \A n \in 1 .. j : FailsRetryable(a.fn, n)
             /\ Call(a.fn, j + 1).ok) =>
                /\ a.calls <= j + 1
                /\ a \in BagToSet(settled) =>
                       /\ a.kind = "resolve"
                       /\ a.v = Call(a.fn, j + 1).v
                       /\ a.calls = j + 1
                       /\ Len(a.delays) = j

\* C6 witness: a task that failed three times with retryable errors has
\* resolved with the value of its fourth attempt.
C6_Witness ==
    \E s \in BagToSet(settled) :
        s.kind = "resolve" /\ s.calls = 4 /\ Len(s.delays) = 3

\* C7: an error is retried exactly when it is an object with status 429,
\* status >= 500, code ECONNRESET, ECONNREFUSED or ETIMEDOUT, or name
\* AbortError or TimeoutError: a task sleeps for a retry only after such an
\* error, and is rejected before its last attempt only by another error.
C7_Classification ==
    /\ \A a \in BagToSet(active) :
           a.pc = "sleep" => Retryable(Call(a.fn, a.calls).v)
    /\ \A s \in BagToSet(settled) :
           s.kind = "reject" /\ s.calls <= maxRetries =>
               ~Retryable(Call(s.fn, s.calls).v)

\* C7 witness: a task sleeps for a retry after an error named TimeoutError.
C7_Witness ==
    \E a \in BagToSet(active) :
        a.pc = "sleep" /\ Call(a.fn, a.calls).v.name = "TimeoutError"

\* C8: the delay slept after attempt k lies in
\* [baseDelay * 2^k, baseDelay * 2^k * 1.1), with baseDelay 1000.
C8_DelayInterval ==
    /\ baseDelay = 1000
    /\ \A a \in Records :
           \A i \in 1 .. Len(a.delays) :
               LET lower == 1000 * Pow2(i - 1)
               IN  /\ lower * DelayScale <= a.delays[i]
                   /\ a.delays[i] * 10 < lower * 11 * DelayScale

\* C8 witness: a task that has slept three times, each time with some jitter.
C8_Witness ==
    \E a \in Records :
        /\ Len(a.delays) = 3
        /\ \A i \in 1 .. 3 : a.delays[i] > 1000 * Pow2(i - 1) * DelayScale

\* C9: tasks begin execution in the order of their add() calls.
C9_Fifo ==
    /\ \A i \in 1 .. Len(admitted) : admitted[i] = i
    /\ \A i \in 1 .. Len(queue) : queue[i].id = Len(admitted) + i

\* C9 witness: every task of a burst has begun, the last ones after waiting.
C9_Witness == Len(admitted) = NumTasks

\* The outcome the attempts of a function lead to, whatever else is queued.
ExpectResolve(fn) ==
    \E j \in 0 .. 3 : (\A n \in 1 .. j : FailsRetryable(fn, n)) /\ Call(fn, j + 1).ok

\* C10: every submitted task is waiting, in flight or settled, never two of
\* these and never settled twice; a settled promise has the outcome of the
\* last attempt of its own function and keeps it.
C10_OneOutcome ==
    /\ [](/\ Len(queue) + BagCardinality(active) + BagCardinality(settled) = nextId
          /\ \A s \in BagToSet(settled) :
                 /\ (s.kind = "resolve") <=> ExpectResolve(s.fn)
                 /\ s.kind = "resolve" => s.v = Call(s.fn, s.calls).v
                 /\ s.kind # "resolve" =>
                        s.kind = "reject" /\ s.v = Surfaced(Call(s.fn, s.calls).v))
    /\ [][\A s \in BagToSet(settled) : CopiesIn(s, settled') >= CopiesIn(s, settled)]_vars

\* C10 witness: of two tasks submitted together one has been rejected and
\* the other has resolved.
C10_Witness ==
    /\ nextId = 2
    /\ \E s, t \in BagToSet(settled) : s.kind = "reject" /\ t.kind = "resolve"

\* The promise of s was rejected by the failure of its last attempt.
TerminalFailure(s) == s.kind = "reject" /\ ~Call(s.fn, s.calls).ok

\* C11 as claimed: a rejected promise carries the very value the last attempt
\* of its task failed with, whatever kind of value that is.
C11_RawErrorSurfaced ==
    \A s \in BagToSet(settled) :
        TerminalFailure(s) => s.v = Call(s.fn, s.calls).v

\* C11 amended: a rejected promise carries the very value the last attempt
\* failed with when that value is an Error instance (status, code, name and
\* message untouched); any other value (plain object, string, null) is
\* replaced by a new Error whose message is its string form and which has
\* none of its fields.
C11_ErrorSurfacedOthersWrapped ==
    \A s \in BagToSet(settled) :
        TerminalFailure(s) =>
            LET e == Call(s.fn, s.calls).v
            IN  /\ s.v.type = "Error"
                /\ e.type = "Error" => s.v = e
                /\ e.type # "Error" =>
                       /\ s.v.status = 0 /\ s.v.code = "" /\ s.v.name = "Error"
                       /\ s.v.msg = String(e)

\* C11 witness: a task whose attempts all failed with an Error carrying
\* status 503 has been rejected with it.
C11_Witness ==
    \E s \in BagToSet(settled) :
        /\ TerminalFailure(s)
        /\ s.calls = 4
        /\ s.v.status = 503
        /\ s.v = Call(s.fn, 4).v

\* C12: when timers fire and every attempt settles, every task that was
\* submitted reaches its outcome: from some time on no submitted task is
\* waiting or in flight.
C12_AllSettle == <>[](BagCardinality(settled) = nextId)

\* C12 witness: every task of a burst larger than both limits has settled.
C12_Witness == BagCardinality(settled) = NumTasks /\ NumTasks > 20

\* C13: a task holds its slot from the moment it is started until its promise
\* settles, sleeps included: the slots taken are the tasks started and not
\* yet settled, a slot is given back only in a step that settles a task, and
\* while 20 such tasks execute or sleep no waiting task is started.
C13_SlotHeldThroughSleep ==
    /\ [](pending = BagCardinality(active))
    /\ [][/\ pending' < pending =>
                 BagCardinality(settled') > BagCardinality(settled)
          /\ (pending = concurrency
                 /\ BagCardinality(settled') = BagCardinality(settled)) =>
                 admitted' = admitted]_vars

\* C13 witness: the window would allow a start and a task waits, but all 20
\* slots are taken, one of them by a task asleep between two attempts.
C13_Witness ==
    /\ pending = concurrency
    /\ queue # <<>>
    /\ intervalId # Undefined
    /\ intervalCount < intervalCap
    /\ \E a \in BagToSet(active) : a.pc = "sleep"

\* C14: when more than 20 tasks are passed to add() in one turn on an idle
\* queue, the first 20 in submission order are started within that turn and
\* the others wait in submission order; a waiting task is started afterwards
\* only by a step that frees a slot when all 20 were taken, and only by a
\* timer that resets the window count when 20 had been started since the last
\* reset; never are more than 20 slots taken or more than 20 tasks started in
\* one window, and after a single burst never more than 20 within any
\* interval milliseconds.
C14_BurstAdmission ==
    /\ [][/\ (nextId = 0 /\ nextId' > 20) =>
                 /\ admitted' = [i \in 1 .. 20 |-> i]
                 /\ [i \in 1 .. Len(queue') |-> queue'[i].id]
                        = [i \in 1 .. nextId' - 20 |-> 20 + i]
                 /\ Executing' = 20
          /\ (nextId > 0 /\ Len(admitted') > Len(admitted)) =>
                 /\ pending = concurrency =>
                        BagCardinality(settled') > BagCardinality(settled)
                 /\ sinceReset = intervalCap =>
                        sinceReset' = Len(admitted') - Len(admitted)
                 /\ pending' <= 20
                 /\ sinceReset' <= 20]_vars
    /\ (Len(todo) = 1 /\ Len(Head(todo)) > 20) => [](Len(recent) <= 20)

\* C14 witness: the tasks that had to wait when a burst of more than 20 was
\* submitted have all been started, the last of them in a later window.
C14_Witness ==
    /\ todo = <<>>
    /\ nextId > 20
    /\ Len(admitted) = nextId
    /\ Len(recent) = nextId - 20
    /\ sinceReset = nextId - 20

\* An activation whose next step is due: its fn() call can settle, or its
\* sleep is over.
Ready(b) == b.pc = "fn" \/ (b.pc = "sleep" /\ b.wake = 0)

\* A step in which activation b goes on: it leaves the state it was
\* suspended in, or (when a job just started takes its place among the
\* tasks that succeed at once) its outcome is added to the settled promises.
Advances(b) ==
    \/ CopiesIn(b, active') < CopiesIn(b, active)
    \/ \E s \in BagToSet(settled') :
           /\ s.id = b.id /\ s.fn = b.fn /\ s.calls = b.calls
           /\ CopiesIn(s, settled') > CopiesIn(s, settled)

\* C15: the sleep of a started task blocks no other started task: whenever
\* a task is asleep between two attempts, every other started task whose
\* next step is due can take it at once (its attempt settles, it retries or
\* it reaches its outcome), whatever its place in the submission order.
C15_SleepBlocksNoOne ==
    \A a, b \in BagToSet(active) :
        (a.pc = "sleep" /\ a.wake > 0 /\ Ready(b)) =>
            ENABLED (Next /\ Advances(b))

\* C15 witness: of two tasks submitted together the second has reached its
\* outcome while the first, submitted before it, is asleep between attempts.
C15_Witness ==
    /\ \E a \in BagToSet(active) : a.id = 1 /\ a.pc = "sleep" /\ a.wake > 0
    /\ \E s \in BagToSet(settled) : s.id = 2

\* C16: the delays of one retry loop never decrease: whatever the two draws
\* of Math.random(), the delay after attempt k + 1 is at least the delay
\* after attempt k, and so are the delays every task has slept.
C16_DelaysNeverDecrease ==
    /\ \A k \in 0 .. maxRetries - 1 :
           \A r1, r2 \in 0 .. RandDen - 1 :
               calculateDelay(k + 1, r2) >= calculateDelay(k, r1)
    /\ \A a \in Records :
           \A i \in 1 .. Len(a.delays) - 1 : a.delays[i + 1] >= a.delays[i]

\* C16 witness: a task has slept a first delay with the largest jitter and
\* then a second delay with no jitter at all.
C16_Witness ==
    \E a \in Records :
        /\ Len(a.delays) >= 2
        /\ a.delays[1] = calculateDelay(0, RandDen - 1)
        /\ a.delays[2] = calculateDelay(1, 0)

\* The crawls whose response is an HTTP success but not a chargeable one:
\* pc_status is not 200, or original_status is given and not chargeable.
NonChargeable ==
    {w \in Worlds :
        /\ w.hasToken /\ w.reachable
        /\ w.response.status < 400
        /\ \/ w.response.pc_status # 200
           \/ w.response.original_status \notin chargeableStatuses \cup {Null}}

\* The task functions of these crawls.
NonChargeableTasks == {crawlTask(w) : w \in NonChargeable}

\* C17 as claimed: a crawl whose responses are non-chargeable is attempted
\* again by the retry queue until the retry budget is spent (maxRetries + 1
\* requests, a sleep between any two) before its failure is reported.
C17_NonChargeableRetried ==
    \A s \in {t \in BagToSet(settled) : t.fn \in NonChargeableTasks} :
        \A w \in NonChargeable :
            s.fn = crawlTask(w) =>
                /\ s.calls = maxRetries + 1
                /\ Len(s.delays) = maxRetries
                /\ crawl(s).type = "failure"

\* The crawls the API answers with an HTTP error.
HttpError == {w \in Worlds : w.hasToken /\ w.reachable /\ w.response.status >= 400}

\* The task functions of these crawls.
HttpErrorTasks == {crawlTask(w) : w \in HttpError}

\* C20: a crawl the API answers with an HTTP status >= 400 (429 and 5xx
\* included) makes one request and never sleeps: its closure returns
\* {success: false}, and crawl resolves with success false and error.status
\* the HTTP status.
C20_HttpErrorNotRetried ==
    /\ \A a \in {b \in BagToSet(active) : b.fn \in HttpErrorTasks} :
           a.calls = 1 /\ a.pc = "fn" /\ a.delays = <<>>
    /\ \A s \in {t \in BagToSet(settled) : t.fn \in HttpErrorTasks} :
           \A w \in HttpError :
               s.fn = crawlTask(w) =>
                   /\ s.kind = "resolve"
                   /\ s.calls = 1
                   /\ Requests(w, s) = 1
                   /\ s.delays = <<>>
                   /\ crawl(s).type = "failure"
                   /\ crawl(s).status = w.response.status

\* C20 witness: a crawl answered with HTTP 429 has resolved after its only
\* request.
C20_Witness ==
    \E s \in {t \in BagToSet(settled) : t.fn \in HttpErrorTasks} :
        \E w \in HttpError :
            /\ w.response.status = 429
            /\ s.fn = crawlTask(w) /\ s.calls = 1 /\ crawl(s).status = 429

\* C18: the configuration of the queue (concurrency 20, interval 1000,
\* intervalCap 20, maxRetries 3, baseDelay 1000) is what the constructor
\* set, at all times, and no step of the queue changes it.
C18_ConfigFixed ==
    /\ [](config = <<20, 1000, 20, 3, 1000>>)
    /\ [][config' = config]_vars

\* C18 witness: tasks were submitted, one was retried until its budget was
\* spent and was rejected, and the configuration is still the constructor's.
C18_Witness ==
    /\ config = <<20, 1000, 20, 3, 1000>>
    /\ \E s \in BagToSet(settled) :
           s.kind = "reject" /\ s.calls = 4 /\ Len(s.delays) = 3

\* The admission state of an instance: its executing count, the slots
\* taken, the starts counted in its window, the jobs waiting in order, the
\* jobs started in order, and the promises settled.
Admission(S) ==
    <<CopiesIn("fn", BagOfAll(LAMBDA a : a.pc, S.active)), S.pending,
      S.intervalCount, S.sinceReset, S.queue, S.admitted, S.settled>>

\* A job of an instance waits only for a limit of that instance: all its
\* slots are taken, its window is full, or its window is paused until the
\* timer it has armed.
WaitsOnOwnLimits(S) ==
    S.queue # <<>> =>
        \/ S.pending >= concurrency
        \/ S.intervalCount >= intervalCap
        \/ S.timeoutId # Undefined

\* C19: two RetryQueue instances share no admission state: a step that
\* changes the admission state of one instance (a submission, a start, an
\* attempt, a retry, an outcome) leaves that of the other as it was, and a
\* task waits in an instance only for that instance's own limits.
C19_InstancesIndependent ==
    /\ [][Admission(State)' # Admission(State) =>
              Admission(other)' = Admission(other)]_vars
    /\ [](WaitsOnOwnLimits(State) /\ WaitsOnOwnLimits(other))

\* C19 witness: the first instance has its 20 slots taken and tasks waiting,
\* and at that very moment the second instance has started the task it was
\* given: 21 tasks execute in the process.
C19_Witness ==
    /\ pending = concurrency
    /\ queue # <<>>
    /\ Len(recent) = 20 /\ recent[20] = 0
    /\ other.recent = <<0>>
    /\ other.pending = 1
    /\ Executing + CopiesIn("fn", BagOfAll(LAMBDA a : a.pc, other.active)) = 21

\* The task functions of all crawls, and of the crawls whose client lacks the
\* token the request needs.
CrawlTasks == {crawlTask(w) : w \in Worlds}
NoToken == {w \in Worlds : ~w.hasToken}
NoTokenTasks == {crawlTask(w) : w \in NoToken}

\* C21: crawl never rejects: whatever the retry queue's promise settles
\* with, crawl returns a result, and a rejection of the queue (retries spent,
\* a failure that is not retried, a fetch that failed) becomes {success:
\* false, error: {status: 500}} with the message of the error; a missing
\* token is not retried: one call of the closure, no request, no sleep, and
\* that result.
C21_CrawlNeverRejects ==
    /\ \A s \in {t \in BagToSet(settled) : t.fn \in CrawlTasks} :
           /\ crawl(s).type \in {"success", "failure"}
           /\ s.kind = "reject" =>
                  /\ crawl(s).type = "failure"
                  /\ crawl(s).status = 500
                  /\ crawl(s).msg = s.v.msg
    /\ \A a \in {b \in BagToSet(active) : b.fn \in NoTokenTasks} :
           a.calls = 1 /\ a.pc = "fn" /\ a.delays = <<>>
    /\ \A s \in {t \in BagToSet(settled) : t.fn \in NoTokenTasks} :
           /\ s.kind = "reject"
           /\ s.calls = 1
           /\ s.delays = <<>>
           /\ \A w \in NoToken : s.fn = crawlTask(w) => Requests(w, s) = 0
           /\ crawl(s).type = "failure"
           /\ crawl(s).status = 500

\* C21 witness: the crawl of a client without token has been rejected by the
\* queue after its only attempt, and crawl returns the status-500 result.
C21_Witness ==
    \E s \in {t \in BagToSet(settled) : t.fn \in NoTokenTasks} :
        /\ s.kind = "reject"
        /\ s.calls = 1
        /\ crawl(s).type = "failure"
        /\ crawl(s).status = 500

\* C22: no sleep follows the last attempt of a task: a task that has its
\* outcome after n calls of its function has slept n - 1 times; a task
\* awaiting its n-th call has slept n - 1 times, a task asleep after its n-th
\* call has slept n times and has an attempt left; and a promise is settled
\* only by the step in which a call of the function settles, never by the end
\* of a sleep, so the failure of attempt maxRetries rejects at once, be the
\* error retryable or not.
C22_NoSleepAfterLastAttempt ==
    /\ [](/\ \A s \in BagToSet(settled) : Len(s.delays) = s.calls - 1
          /\ \A a \in BagToSet(active) :
                 /\ a.pc = "fn" => Len(a.delays) = a.calls - 1
                 /\ a.pc = "sleep" =>
                        /\ Len(a.delays) = a.calls
                        /\ a.attempt < maxRetries
                        /\ a.calls <= maxRetries)
    /\ [][BagCardinality(settled') > BagCardinality(settled) =>
              \E a \in BagToSet(active) :
                  /\ a.pc = "fn"
                  /\ CopiesIn(a, active') < CopiesIn(a, active)
                     \/ \E s \in BagToSet(settled') :
                            /\ s.id = a.id /\ s.fn = a.fn /\ s.calls = a.calls
                            /\ CopiesIn(s, settled') > CopiesIn(s, settled)]_vars

\* C22 witness: a task whose call on attempt maxRetries failed with a
\* retryable error has been rejected having slept three times, once after
\* each of the earlier calls.
C22_Witness ==
    \E s \in BagToSet(settled) :
        /\ s.kind = "reject"
        /\ s.calls = maxRetries + 1
        /\ Retryable(Call(s.fn, s.calls).v)
        /\ Len(s.delays) = maxRetries

====
